---- MODULE Spec2Model ----
(***************************************************************************)
(* Car-recall dashboards: four Streamlit scripts over one kind of table.   *)
(*   app              KimMinHa/app.py            placeholder data frame    *)
(*   app_2            YoonhaJeon/app_2.py        uploaded CSV              *)
(*   app_connect      YoonhaJeon/app_connect.py  SQLite, five-table join   *)
(*   app_final_final  YoonhaJeon/app_final_final.py + recall_repo.py MySQL *)
(* A text is a sequence of one-character strings.  The Korean literals of  *)
(* the source are written in ASCII: "ALL" is the sentinel of the select    *)
(* boxes, "KR" and "EX" are the two region values (domestic, overseas),    *)
(* "HI", "MID", "LOW" the three severities, and the character "u" is the   *)
(* unit suffix of a quantity cell.                                         *)
(***************************************************************************)
EXTENDS Integers, Sequences, FiniteSets, TLC

VARIABLES
  app,     \* which script runs
  data,    \* its input: the uploaded file, or the rows of the recall table
  pc,      \* where the script run stands: start, ready, shown, stopped, crashed
  df_all,  \* the loaded, normalized frame (app, app_2)
  years,   \* the years offered by the year select box
  out,     \* what the last step of the run produced
  conn,    \* the database connections of the interaction: none, open, closed
  catalog, \* which contents tbl_manufacturer and tbl_model have
  cache    \* st.cache_data: the stored value of each stored call

vars == <<app, data, pc, df_all, years, out, conn, catalog, cache>>

\* ------------------------------------------------------------------ bounds
MaxRows == 3

\* --------------------------------------------------------------- constants
TopN == 20
ListLimit == 500
FallbackMinYear == 2000
CurrentYear == 2026

NONE == "NONE"
ALL == "ALL"

\* An optional value: None, or Some(x).
None == <<>>

Some(x) == <<x>>

\* -------------------------------------------------------------------- text
Digits == <<"0", "1", "2", "3", "4", "5", "6", "7", "8", "9">>

IsDigit(c) == \E i \in 1..10 : Digits[i] = c

DigitVal(c) == (CHOOSE i \in 1..10 : Digits[i] = c) - 1

\* The characters of the model in code-point order.
CodeOrder ==
  <<" ", "%", ",", "-", ".", "0", "1", "2", "3", "4", "5", "6", "7", "8", "9",
    "B", "K", "M", "_", "a", "b", "i", "k", "m", "n", "r", "u", "~">>

Ord(c) == CHOOSE i \in 1..Len(CodeOrder) : CodeOrder[i] = c

\* str.lower / the case folding of re.IGNORECASE and of LIKE, per character.
LowerChar(c) ==
  CASE c = "B" -> "b"
    [] c = "K" -> "k"
    [] c = "M" -> "m"
    [] OTHER -> c

Lower(s) == [i \in 1..Len(s) |-> LowerChar(s[i])]

\* Python's string comparison: by code point, a proper prefix first.
RECURSIVE StrLe(_, _)
StrLe(a, b) ==
  IF a = <<>> THEN TRUE
  ELSE IF b = <<>> THEN FALSE
  ELSE IF Head(a) = Head(b) THEN StrLe(Tail(a), Tail(b))
  ELSE Ord(Head(a)) < Ord(Head(b))

RECURSIVE LStrip(_)
LStrip(s) == IF s # <<>> /\ Head(s) = " " THEN LStrip(Tail(s)) ELSE s

RECURSIVE RStrip(_)
RStrip(s) ==
  IF s # <<>> /\ s[Len(s)] = " " THEN RStrip(SubSeq(s, 1, Len(s) - 1)) ELSE s

Strip(s) == RStrip(LStrip(s))

Contains(s, c) == \E i \in 1..Len(s) : s[i] = c

\* re.search(pat, s) for a pattern of ordinary characters and ".": the
\* pattern characters of the model that the regular-expression engine reads
\* as something other than themselves.
RegexSearch(pat, s) ==
  \E i \in 0..(Len(s) - Len(pat)) :
    \A j \in 1..Len(pat) : pat[j] = "." \/ pat[j] = s[i + j]

\* re.search(pat, s, re.IGNORECASE)
RegexSearchNoCase(pat, s) ==
  \E i \in 0..(Len(s) - Len(pat)) :
    \A j \in 1..Len(pat) : pat[j] = "." \/ LowerChar(pat[j]) = LowerChar(s[i + j])

\* SQL  s LIKE p : "%" is any run of characters, "_" any one character,
\* letters compare case-insensitively (the engines' default).
RECURSIVE LikeMatch(_, _)
LikeMatch(p, s) ==
  IF p = <<>> THEN s = <<>>
  ELSE IF Head(p) = "%"
    THEN \E k \in 0..Len(s) : LikeMatch(Tail(p), SubSeq(s, k + 1, Len(s)))
    ELSE /\ s # <<>>
         /\ (Head(p) = "_" \/ LowerChar(Head(p)) = LowerChar(Head(s)))
         /\ LikeMatch(Tail(p), Tail(s))

\* ------------------------------------------------------------------- dates
\* A date is <<year, month, day>>.
DateLe(a, b) ==
  \/ a[1] < b[1]
  \/ a[1] = b[1] /\ a[2] < b[2]
  \/ a[1] = b[1] /\ a[2] = b[2] /\ a[3] <= b[3]

IsLeap(y) == (y % 4 = 0 /\ y % 100 # 0) \/ y % 400 = 0

DaysInMonth(y, m) ==
  IF m = 2 THEN (IF IsLeap(y) THEN 29 ELSE 28)
  ELSE IF m \in {4, 6, 9, 11} THEN 30 ELSE 31

\* datetime.date(y, m, d) raises ValueError outside these ranges.
ValidDate(y, m, d) ==
  /\ y >= 1 /\ y <= 9999
  /\ m >= 1 /\ m <= 12
  /\ d >= 1 /\ d <= DaysInMonth(y, m)

TwoDigits(n) == <<Digits[(n \div 10) + 1], Digits[(n % 10) + 1]>>

\* date.isoformat(): YYYY-MM-DD, zero padded.
isoformat(d) ==
  <<Digits[(d[1] \div 1000) + 1], Digits[((d[1] \div 100) % 10) + 1],
    Digits[((d[1] \div 10) % 10) + 1], Digits[(d[1] % 10) + 1], "-">>
  \o TwoDigits(d[2]) \o <<"-">> \o TwoDigits(d[3])

\* ------------------------------------------------------------------- cells
\* A cell of a raw table: a text, NaN (an empty CSV field) or None.
Str(s) == [kind |-> "str", s |-> s]

NanCell == [kind |-> "nan", s |-> <<>>]

NoneCell == [kind |-> "none", s |-> <<>>]

\* str(x): the text of a cell that is not None.
str(c) == IF c.kind = "nan" THEN <<"n", "a", "n">> ELSE c.s

\* ------------------------------------------------- app_2.py: 1) normalizer
RECURSIVE DigitsOf(_)
DigitsOf(s) ==
  IF s = <<>> THEN <<>>
  ELSE IF IsDigit(Head(s)) THEN <<Head(s)>> \o DigitsOf(Tail(s))
  ELSE DigitsOf(Tail(s))

RECURSIVE int(_)
int(ds) ==
  IF ds = <<>> THEN 0 ELSE 10 * int(SubSeq(ds, 1, Len(ds) - 1)) + DigitVal(ds[Len(ds)])

\* A parser that stops at the first character that is no digit.
RECURSIVE LeadingDigits(_)
LeadingDigits(s) ==
  IF s # <<>> /\ IsDigit(Head(s)) THEN <<Head(s)>> \o LeadingDigits(Tail(s)) ELSE <<>>

parse_units_leading(c) ==
  IF c.kind = "none" THEN 0
  ELSE LET s == Strip(str(c))
       IN IF s = <<>> THEN 0
          ELSE LET digits == LeadingDigits(s)
               IN IF digits # <<>> THEN int(digits) ELSE 0

parse_units_to_int(c) ==
  IF c.kind = "none" THEN 0
  ELSE LET s == Strip(str(c))
       IN IF s = <<>> THEN 0
          ELSE LET digits == DigitsOf(s)
               IN IF digits # <<>> THEN int(digits) ELSE 0

IsNonZeroDigit(c) == IsDigit(c) /\ c # "0"

\* The length of the text the month directive %m takes at the head of r:
\* 1[0-2] | 0[1-9] | [1-9], tried in this order; 0 when none matches.
MonthLen(r) ==
  IF Len(r) >= 2 /\ ((r[1] = "1" /\ r[2] \in {"0", "1", "2"})
                     \/ (r[1] = "0" /\ IsNonZeroDigit(r[2]))) THEN 2
  ELSE IF Len(r) >= 1 /\ IsNonZeroDigit(r[1]) THEN 1
  ELSE 0

\* The same for the day directive %d:
\* 3[0-1] | [1-2]\d | 0[1-9] | [1-9] | " "[1-9].
DayLen(r) ==
  IF Len(r) >= 2 /\ ((r[1] = "3" /\ r[2] \in {"0", "1"})
                     \/ (r[1] \in {"1", "2"} /\ IsDigit(r[2]))
                     \/ (r[1] = "0" /\ IsNonZeroDigit(r[2]))) THEN 2
  ELSE IF Len(r) >= 1 /\ IsNonZeroDigit(r[1]) THEN 1
  ELSE IF Len(r) >= 2 /\ r[1] = " " /\ IsNonZeroDigit(r[2]) THEN 2
  ELSE 0

\* A strptime that takes only the zero-padded form: four, two and two digits.
strptime_fixed_width(s) ==
  IF ~(/\ Len(s) = 10
       /\ \A i \in {1, 2, 3, 4, 6, 7, 9, 10} : IsDigit(s[i])
       /\ s[5] = "-" /\ s[8] = "-") THEN <<>>
  ELSE LET y == int(SubSeq(s, 1, 4))
           m == int(SubSeq(s, 6, 7))
           d == int(SubSeq(s, 9, 10))
       IN IF ValidDate(y, m, d) THEN <<y, m, d>> ELSE <<>>

\* datetime.strptime(s, "%Y-%m-%d").date(): the date, or <<>> where strptime
\* raises ValueError (no match, unconverted data, a day that does not exist).
strptime(s) ==
  IF ~(Len(s) >= 5 /\ (\A i \in 1..4 : IsDigit(s[i])) /\ s[5] = "-") THEN <<>>
  ELSE
    LET y == int(SubSeq(s, 1, 4))
        r == SubSeq(s, 6, Len(s))
        ml == MonthLen(r)
    IN IF ml = 0 \/ Len(r) < ml + 1 \/ r[ml + 1] # "-" THEN <<>>
       ELSE
         LET m == int(DigitsOf(SubSeq(r, 1, ml)))
             t == SubSeq(r, ml + 2, Len(r))
             dl == DayLen(t)
         IN IF dl = 0 \/ Len(t) # dl THEN <<>>
            ELSE LET d == int(DigitsOf(t))
                 IN IF ValidDate(y, m, d) THEN <<y, m, d>> ELSE <<>>

\* The position of the first "~" of s, 0 when there is none.
FirstTilde(s) ==
  IF Contains(s, "~")
    THEN CHOOSE i \in 1..Len(s) : s[i] = "~" /\ \A j \in 1..(i - 1) : s[j] # "~"
    ELSE 0

\* (start_dt, end_dt) as two cells: ISO texts, or (None, None).
parse_period_to_dates(c) ==
  IF c.kind = "none" THEN <<NoneCell, NoneCell>>
  ELSE
    LET period == Strip(str(c))
        k == FirstTilde(period)
    IN IF k = 0 THEN <<NoneCell, NoneCell>>
       ELSE
         LET left == Strip(SubSeq(period, 1, k - 1))
             right == Strip(SubSeq(period, k + 1, Len(period)))
             s == strptime(left)
             e == strptime(right)
         IN IF s = <<>> \/ e = <<>> THEN <<NoneCell, NoneCell>>
            ELSE <<Str(isoformat(s)), Str(isoformat(e))>>

required_cols ==
  <<"gubun", "jejaksa", "chamyeong", "saengsangigan", "daesangsuryang",
    "gyeolhamnaeyong", "sijeongbangbeop", "gitamunui">>

\* One row of the frame built at app_2.py:67, before dropna.
NormalizeRow(r) ==
  LET p == parse_period_to_dates(r.saengsangigan)
  IN [scope |-> r.gubun, maker |-> r.jejaksa, car_name |-> r.chamyeong,
      start_date |-> p[1], end_date |-> p[2],
      target_units |-> parse_units_to_int(r.daesangsuryang),
      defect_text |-> r.gyeolhamnaeyong, fix_text |-> r.sijeongbangbeop,
      contact_text |-> r.gitamunui]

HasDates(r) == r.start_date.kind = "str" /\ r.end_date.kind = "str"

\* out.dropna(subset=["start_date", "end_date"]): the rows left carry their
\* dates as ISO texts.
dropna(rows) ==
  LET kept == SelectSeq(rows, HasDates)
  IN [i \in 1..Len(kept) |->
        [kept[i] EXCEPT !.start_date = kept[i].start_date.s,
                        !.end_date = kept[i].end_date.s]]

\* A normalizer whose error stops at the first missing column.
preprocess_csv_first_missing(df) ==
  LET missing == SelectSeq(required_cols, LAMBDA c : c \notin df.columns)
  IN IF missing # <<>> THEN [ok |-> FALSE, error |-> "ValueError", missing |-> <<missing[1]>>]
     ELSE [ok |-> TRUE,
           df |-> dropna([i \in 1..Len(df.rows) |-> NormalizeRow(df.rows[i])])]

\* preprocess_csv(df): the normalized frame, or the ValueError naming the
\* missing columns.
preprocess_csv(df) ==
  LET missing == SelectSeq(required_cols, LAMBDA c : c \notin df.columns)
  IN IF missing # <<>> THEN [ok |-> FALSE, error |-> "ValueError", missing |-> missing]
     ELSE [ok |-> TRUE,
           df |-> dropna([i \in 1..Len(df.rows) |-> NormalizeRow(df.rows[i])])]

\* ---------------------------------------------------------------- sorting
\* seq reordered so that no element follows one that Gt puts after it, the
\* elements Gt does not order keeping their order in seq (a stable sort).
StableSort(seq, Gt(_, _)) ==
  LET n == Len(seq)
      rank(i) ==
        Cardinality({j \in 1..n : Gt(seq[j], seq[i])})
        + Cardinality({j \in 1..(i - 1) : ~Gt(seq[j], seq[i]) /\ ~Gt(seq[i], seq[j])})
        + 1
  IN [p \in 1..n |-> seq[CHOOSE i \in 1..n : rank(i) = p]]

StrLt(a, b) == a # b /\ StrLe(a, b)

\* sorted(set of texts)
RECURSIVE SortedTexts(_)
SortedTexts(S) ==
  IF S = {} THEN <<>>
  ELSE LET m == CHOOSE x \in S : \A z \in S : StrLe(x, z)
       IN <<m>> \o SortedTexts(S \ {m})

head(seq, n) == SubSeq(seq, 1, IF Len(seq) < n THEN Len(seq) ELSE n)

RECURSIVE SumSeq(_)
SumSeq(s) == IF s = <<>> THEN 0 ELSE Head(s) + SumSeq(Tail(s))

SeqMin(s) == CHOOSE x \in {s[i] : i \in 1..Len(s)} : \A i \in 1..Len(s) : x <= s[i]

SeqMax(s) == CHOOSE x \in {s[i] : i \in 1..Len(s)} : \A i \in 1..Len(s) : x >= s[i]

\* range(a, b + 1) as a list
range(a, b) == [i \in 1..(IF b >= a THEN b - a + 1 ELSE 0) |-> a + i - 1]

\* ---------------------------------------------- app_2.py: 3) common logic
\* The years from the earliest start year to the latest end year.  On an empty
\* frame min() and max() are NaN and range() raises TypeError.
compute_year_list(df) ==
  IF df = <<>> THEN [ok |-> FALSE, error |-> "TypeError", years |-> <<>>]
  ELSE LET min_y == SeqMin([i \in 1..Len(df) |-> int(SubSeq(df[i].start_date, 1, 4))])
           max_y == SeqMax([i \in 1..Len(df) |-> int(SubSeq(df[i].end_date, 1, 4))])
       IN [ok |-> TRUE, error |-> NONE, years |-> range(min_y, max_y)]

makers_by_scope(df, scope_value) ==
  IF scope_value = ALL
    THEN SortedTexts({df[i].maker : i \in 1..Len(df)})
    ELSE SortedTexts({df[i].maker : i \in {j \in 1..Len(df) : df[j].scope = scope_value}})

\* A year filter that keeps the rows whose period starts in the year y.
filter_by_start_year(df, y) ==
  SelectSeq(df, LAMBDA r : int(SubSeq(r.start_date, 1, 4)) = y)

\* The rows whose period meets the year y: ISO texts compared as texts.
filter_by_manufacture_year(df, y) ==
  LET y_start == isoformat(<<y, 1, 1>>)
      y_end == isoformat(<<y, 12, 31>>)
  IN SelectSeq(df, LAMBDA r : StrLe(r.start_date, y_end) /\ StrLe(y_start, r.end_date))

kpi_total_recall_count(df, year) == Len(filter_by_manufacture_year(df, year))

\* A unit total taken over the frame before the year filter.
kpi_total_units_unfiltered(df, year) ==
  SumSeq([i \in 1..Len(df) |-> df[i].target_units])

kpi_total_units(df, year) ==
  LET f == filter_by_manufacture_year(df, year)
  IN SumSeq([i \in 1..Len(f) |-> f[i].target_units])

CntGt(a, b) == a.recall_cnt > b.recall_cnt

\* groupby(key).size(): one row per key, in key order.
GroupSize(keys) ==
  LET ks == SortedTexts({keys[i] : i \in 1..Len(keys)})
  IN [g \in 1..Len(ks) |->
        [key |-> ks[g],
         recall_cnt |-> Cardinality({i \in 1..Len(keys) : keys[i] = ks[g]})]]

\* groupby(key).size().sort_values("recall_cnt", ascending=False).head(20)
Ranking(keys) == head(StableSort(GroupSize(keys), CntGt), TopN)

maker_recall_count(df, year) ==
  LET base == filter_by_manufacture_year(df, year)
  IN Ranking([i \in 1..Len(base) |-> base[i].maker])

\* A trend computed as one group-by of the start year.
year_trend_groupby(df, ys) ==
  [i \in 1..Len(ys) |->
     [year |-> ys[i],
      recall_cnt |-> Len(SelectSeq(df, LAMBDA r : int(SubSeq(r.start_date, 1, 4)) = ys[i]))]]

year_trend(df, ys) ==
  [i \in 1..Len(ys) |->
     [year |-> ys[i], recall_cnt |-> Len(filter_by_manufacture_year(df, ys[i]))]]

model_ranking(df, year) ==
  LET base == filter_by_manufacture_year(df, year)
  IN Ranking([i \in 1..Len(base) |-> base[i].car_name])

EndDateGt(a, b) == StrLt(b.end_date, a.end_date)

\* The scope and maker restriction shared by both tabs (app_2.py:202, :267).
\* A statistics base that takes the domestic rows when no scope is selected.
ScopeMakerBase_domestic(df, scope_value, maker_value) ==
  LET a == IF scope_value # ALL
             THEN SelectSeq(df, LAMBDA r : r.scope = scope_value)
             ELSE SelectSeq(df, LAMBDA r : r.scope = "KR")
  IN IF maker_value # <<ALL>>
       THEN SelectSeq(a, LAMBDA r : r.maker = maker_value) ELSE a

ScopeMakerBase(df, scope_value, maker_value) ==
  LET a == IF scope_value # ALL
             THEN SelectSeq(df, LAMBDA r : r.scope = scope_value) ELSE df
  IN IF maker_value # <<ALL>>
       THEN SelectSeq(a, LAMBDA r : r.maker = maker_value) ELSE a

\* df[maker.str.contains(q, case=False) | car_name.str.contains(q, case=False)]
app2_search(df, search_text) ==
  IF search_text # <<>>
    THEN SelectSeq(df, LAMBDA r : \/ RegexSearchNoCase(search_text, r.maker)
                                  \/ RegexSearchNoCase(search_text, r.car_name))
    ELSE df

\* The list tab's frame after each statement of app_2.py:202-216.
app2_list(df, scope_value, maker_value, manufacture_year, search_text) ==
  LET base == ScopeMakerBase(df, scope_value, maker_value)
      yeared == filter_by_manufacture_year(base, manufacture_year)
      found == app2_search(yeared, search_text)
  IN [base |-> base, yeared |-> yeared, found |-> found,
      shown |-> head(StableSort(found, EndDateGt), ListLimit)]

\* ------------------------------------------------------------ the database
\* NULL is the empty tuple: a date column holds a date or NULL.
NULL == <<>>

\* tbl_manufacturer joined with tbl_region.  region is region_at (MySQL) and
\* region_type (SQLite); start_date and end_date are the columns the SQLite
\* schema keeps on the manufacturer.
manufacturers_1 ==
  <<[maker_id |-> 1, maker_name |-> <<"K", "i">>, region |-> "KR",
     start_date |-> <<2018, 6, 1>>, end_date |-> <<2020, 3, 1>>],
    [maker_id |-> 2, maker_name |-> <<"B", "M">>, region |-> "EX",
     start_date |-> <<2017, 3, 1>>, end_date |-> <<2021, 1, 1>>],
    [maker_id |-> 3, maker_name |-> <<"M", "n">>, region |-> "EX",
     start_date |-> NULL, end_date |-> NULL]>>

\* The manufacturer a later load of the database adds.
manufacturers_2 ==
  manufacturers_1
  \o <<[maker_id |-> 4, maker_name |-> <<"K", "a">>, region |-> "KR",
        start_date |-> <<2016, 1, 1>>, end_date |-> <<2022, 12, 31>>]>>

tbl_manufacturer == IF catalog = 1 THEN manufacturers_1 ELSE manufacturers_2

\* tbl_model: start_date and end_date are the columns the MySQL schema keeps
\* on the model.
models_1 ==
  <<[model_id |-> 1, maker_id |-> 1, model_name |-> <<"K", "5">>,
     start_date |-> <<2018, 6, 1>>, end_date |-> <<2020, 3, 1>>],
    [model_id |-> 2, maker_id |-> 2, model_name |-> <<"i", "5">>,
     start_date |-> <<2017, 3, 1>>, end_date |-> <<2017, 12, 31>>],
    [model_id |-> 3, maker_id |-> 2, model_name |-> <<"M", "3">>,
     start_date |-> <<2020, 12, 31>>, end_date |-> <<2021, 1, 1>>]>>

\* The model a later load of the database adds.
models_2 ==
  models_1
  \o <<[model_id |-> 4, maker_id |-> 4, model_name |-> <<"a", "3">>,
        start_date |-> <<2016, 1, 1>>, end_date |-> <<2022, 12, 31>>]>>

tbl_model == IF catalog = 1 THEN models_1 ELSE models_2

ModelById(id) == tbl_model[CHOOSE i \in 1..Len(tbl_model) : tbl_model[i].model_id = id]

MakerById(id) ==
  tbl_manufacturer[CHOOSE i \in 1..Len(tbl_manufacturer) :
                     tbl_manufacturer[i].maker_id = id]

\* YEAR(d) / strftime('%Y', d)
YEAR(d) == d[1]

\* ---------------------------------------------------------- recall_repo.py
\* tbl_recall rc JOIN tbl_model md JOIN tbl_manufacturer mf, in table order.
RepoJoin(tbl_recall) ==
  [i \in 1..Len(tbl_recall) |->
     LET rc == tbl_recall[i]
         md == ModelById(rc.model_id)
         mf == MakerById(md.maker_id)
     IN [recall_id |-> i, scope |-> mf.region, maker |-> mf.maker_name,
         car_name |-> md.model_name, start_date |-> md.start_date,
         end_date |-> md.end_date, recall_quantity |-> rc.recall_quantity,
         defect_text |-> rc.defect_desc]]

W_SCOPE == "mf.region_at = %s"
W_MAKER == "mf.maker_name = %s"
W_YEAR == "md.start_date <= %s AND md.end_date >= %s"
W_SEARCH ==
  "(mf.maker_name LIKE CONCAT('%', %s, '%') OR md.model_name LIKE CONCAT('%', %s, '%'))"

\* A builder that writes the scope into the text of the statement.
_build_where_inline_scope(scope, maker, manufacture_year, search_text) ==
  LET w1 == IF scope # ALL
              THEN (IF scope = "KR" THEN <<"mf.region_at = 'KR'">>
                    ELSE <<"mf.region_at = 'EX'">>)
              ELSE <<>>
      w2 == IF maker # <<ALL>> THEN <<W_MAKER>> ELSE <<>>
      p2 == IF maker # <<ALL>> THEN <<maker>> ELSE <<>>
      w3 == IF manufacture_year # None THEN <<W_YEAR>> ELSE <<>>
      p3 == IF manufacture_year # None
              THEN <<<<manufacture_year[1], 12, 31>>, <<manufacture_year[1], 1, 1>>>>
              ELSE <<>>
      s == Strip(search_text)
      w4 == IF s # <<>> THEN <<W_SEARCH>> ELSE <<>>
      p4 == IF s # <<>> THEN <<s, s>> ELSE <<>>
  IN [where |-> w1 \o w2 \o w3 \o w4, params |-> p2 \o p3 \o p4]

\* The WHERE conditions and their parameters, in the order they are appended.
\* manufacture_year is Some(year) or None.
_build_where(scope, maker, manufacture_year, search_text) ==
  LET w1 == IF scope # ALL THEN <<W_SCOPE>> ELSE <<>>
      p1 == IF scope # ALL THEN <<scope>> ELSE <<>>
      w2 == IF maker # <<ALL>> THEN <<W_MAKER>> ELSE <<>>
      p2 == IF maker # <<ALL>> THEN <<maker>> ELSE <<>>
      w3 == IF manufacture_year # None THEN <<W_YEAR>> ELSE <<>>
      p3 == IF manufacture_year # None
              THEN <<<<manufacture_year[1], 12, 31>>, <<manufacture_year[1], 1, 1>>>>
              ELSE <<>>
      s == Strip(search_text)
      w4 == IF s # <<>> THEN <<W_SEARCH>> ELSE <<>>
      p4 == IF s # <<>> THEN <<s, s>> ELSE <<>>
  IN [where |-> w1 \o w2 \o w3 \o w4, params |-> p1 \o p2 \o p3 \o p4]

\* a <= b in SQL: not true when either side is NULL.
SqlDateLe(a, b) == a # NULL /\ b # NULL /\ DateLe(a, b)

Wild(s) == <<"%">> \o s \o <<"%">>

\* Whether row r satisfies the conditions w, joined by AND, with the
\* parameters p bound to the placeholders from left to right.
RECURSIVE EvalWhere(_, _, _)
EvalWhere(w, p, r) ==
  IF w = <<>> THEN TRUE
  ELSE
    LET c == Head(w)
    IN CASE c = W_SCOPE -> r.scope = p[1] /\ EvalWhere(Tail(w), Tail(p), r)
         [] c = W_MAKER -> r.maker = p[1] /\ EvalWhere(Tail(w), Tail(p), r)
         [] c = W_YEAR ->
              /\ SqlDateLe(r.start_date, p[1])
              /\ SqlDateLe(p[2], r.end_date)
              /\ EvalWhere(Tail(w), SubSeq(p, 3, Len(p)), r)
         [] c = W_SEARCH ->
              /\ (LikeMatch(Wild(p[1]), r.maker) \/ LikeMatch(Wild(p[2]), r.car_name))
              /\ EvalWhere(Tail(w), SubSeq(p, 3, Len(p)), r)

\* The joined rows a built WHERE keeps, in table order.
RepoWhere(rows, scope, maker, manufacture_year, search_text) ==
  LET q == _build_where(scope, maker, manufacture_year, search_text)
  IN SelectSeq(rows, LAMBDA r : EvalWhere(q.where, q.params, r))

\* The orders an ORDER BY may return rows in: every arrangement in which no
\* row follows one that Gt puts after it (rows it does not order come in an
\* order the engine chooses).
Orderings(rows, Gt(_, _)) ==
  LET n == Len(rows)
      perms == {f \in [1..n -> 1..n] : \A i, j \in 1..n : i # j => f[i] # f[j]}
  IN {[i \in 1..n |-> rows[f[i]]] : f \in
        {g \in perms : \A i, j \in 1..n : i < j => ~Gt(rows[g[j]], rows[g[i]])}}

\* ORDER BY end_date DESC: NULL sorts after every date.
SqlEndDateGt(a, b) ==
  \/ a.end_date # NULL /\ b.end_date = NULL
  \/ a.end_date # NULL /\ b.end_date # NULL /\ a.end_date # b.end_date
     /\ DateLe(b.end_date, a.end_date)

\* COALESCE of an optional number.
COALESCE(x, d) == IF x = None THEN d ELSE x[1]

\* The RecallView rows fetch_recalls may return.
fetch_recalls(tbl_recall, scope, maker, manufacture_year, search_text, limit) ==
  LET matched == RepoWhere(RepoJoin(tbl_recall), scope, maker, manufacture_year,
                           search_text)
      views == [i \in 1..Len(matched) |->
                  [recall_id |-> matched[i].recall_id, scope |-> matched[i].scope,
                   maker |-> matched[i].maker, car_name |-> matched[i].car_name,
                   start_date |-> matched[i].start_date,
                   end_date |-> matched[i].end_date,
                   target_units |-> COALESCE(matched[i].recall_quantity, 0),
                   defect_text |-> matched[i].defect_text]]
  IN {head(o, limit) : o \in Orderings(views, SqlEndDateGt)}

\* SELECT DISTINCT maker_name FROM tbl_manufacturer [WHERE region_at = scope]
\* ORDER BY maker_name, the empty names skipped.
fetch_makers(scope) ==
  SortedTexts({tbl_manufacturer[i].maker_name :
                 i \in {j \in 1..Len(tbl_manufacturer) :
                          /\ scope = ALL \/ tbl_manufacturer[j].region = scope
                          /\ tbl_manufacturer[j].maker_name # <<>>}})

\* (MIN(YEAR(start_date)), MAX(YEAR(end_date))) over the rows of t with both
\* dates; fallback when there is none.
YearRange(t, fallback) ==
  LET I == {i \in 1..Len(t) : t[i].start_date # NULL /\ t[i].end_date # NULL}
  IN IF I = {} THEN fallback
     ELSE <<CHOOSE y \in {YEAR(t[i].start_date) : i \in I} :
              \A i \in I : y <= YEAR(t[i].start_date),
            CHOOSE y \in {YEAR(t[i].end_date) : i \in I} :
              \A i \in I : y >= YEAR(t[i].end_date)>>

fetch_year_range == YearRange(tbl_model, <<FallbackMinYear, CurrentYear>>)

\* (COUNT(*), COALESCE(SUM(COALESCE(recall_quantity, 0)), 0)); year is
\* Some(year) or None.
fetch_kpi(tbl_recall, scope, maker, year) ==
  LET m == RepoWhere(RepoJoin(tbl_recall), scope, maker, year, <<>>)
  IN <<Len(m), SumSeq([i \in 1..Len(m) |-> COALESCE(m[i].recall_quantity, 0)])>>

\* GROUP BY key ORDER BY recall_cnt DESC LIMIT top_n: the results the engine
\* may return.
SqlRanking(keys, top_n) ==
  {head(o, top_n) : o \in Orderings(GroupSize(keys), CntGt)}

fetch_maker_ranking(tbl_recall, scope, maker, year, top_n) ==
  LET m == RepoWhere(RepoJoin(tbl_recall), scope, maker, year, <<>>)
  IN SqlRanking([i \in 1..Len(m) |-> m[i].maker], top_n)

\* A trend that leaves out the years without a record, as a GROUP BY would.
fetch_year_trend_grouped(tbl_recall, scope, maker, min_year, max_year) ==
  LET ys == range(min_year, max_year)
      all == [i \in 1..Len(ys) |->
                [year |-> ys[i],
                 recall_cnt |-> fetch_kpi(tbl_recall, scope, maker, Some(ys[i]))[1]]]
  IN SelectSeq(all, LAMBDA t : t.recall_cnt > 0)

fetch_year_trend(tbl_recall, scope, maker, min_year, max_year) ==
  LET ys == range(min_year, max_year)
  IN [i \in 1..Len(ys) |->
        [year |-> ys[i], recall_cnt |-> fetch_kpi(tbl_recall, scope, maker, Some(ys[i]))[1]]]

fetch_model_ranking(tbl_recall, scope, maker, year, top_n) ==
  LET m == RepoWhere(RepoJoin(tbl_recall), scope, maker, year, <<>>)
  IN SqlRanking([i \in 1..Len(m) |-> m[i].car_name], top_n)

\* app_final_final.py
cached_makers(scope) == <<<<ALL>>>> \o fetch_makers(scope)

cached_years == range(fetch_year_range[1], fetch_year_range[2])

\* ---------------------------------------------------------- app_connect.py
\* tbl_recall rc JOIN tbl_device JOIN tbl_model mdl JOIN tbl_manufacturer m
\* JOIN tbl_region rgn, in table order.  scope is rgn.region_type, maker is
\* m.maker_name, car_name is mdl.model_name, start_date and end_date are
\* m.start_date and m.end_date.
ConnectJoin(tbl_recall) ==
  [i \in 1..Len(tbl_recall) |->
     LET rc == tbl_recall[i]
         mdl == ModelById(rc.model_id)
         m == MakerById(mdl.maker_id)
     IN [recall_id |-> i, scope |-> m.region, maker |-> m.maker_name,
         car_name |-> mdl.model_name, start_date |-> m.start_date,
         end_date |-> m.end_date, recall_quantity |-> rc.recall_quantity,
         recall_date |-> rc.recall_date, defect_text |-> rc.defect_desc]]

\* SELECT DISTINCT region_type FROM tbl_region ... ORDER BY region_type
load_scopes == <<"KR", "EX">>

scope_options == <<ALL>> \o (IF load_scopes # <<>> THEN load_scopes ELSE <<"KR", "EX">>)

load_makers_by_scope(region_type) ==
  SortedTexts({tbl_manufacturer[i].maker_name :
                 i \in {j \in 1..Len(tbl_manufacturer) :
                          /\ region_type = ALL \/ tbl_manufacturer[j].region = region_type
                          /\ tbl_manufacturer[j].maker_name # <<>>}})

\* (min_year, max_year), or (None, None) as the empty tuple.
load_year_range == YearRange(tbl_manufacturer, None)

connect_compute_year_list(yr) == IF yr = None THEN <<>> ELSE range(yr[1], yr[2])

C_SCOPE == "rgn.region_type = ?"
C_MAKER == "m.maker_name = ?"
C_YEAR == "(DATE(m.start_date) <= DATE(?) AND DATE(m.end_date) >= DATE(?))"
C_SEARCH == "(m.maker_name LIKE ? OR mdl.model_name LIKE ?)"

\* The WHERE of query_recalls (app_connect.py:163-191) and, with no year and
\* no keyword, of base_filtered_view (:242-253).
ConnectBuildWhere(region_type, maker_name, manufacture_year, keyword) ==
  LET w1 == IF region_type # ALL THEN <<C_SCOPE>> ELSE <<>>
      p1 == IF region_type # ALL THEN <<region_type>> ELSE <<>>
      w2 == IF maker_name # <<ALL>> THEN <<C_MAKER>> ELSE <<>>
      p2 == IF maker_name # <<ALL>> THEN <<maker_name>> ELSE <<>>
      w3 == IF manufacture_year # None THEN <<C_YEAR>> ELSE <<>>
      p3 == IF manufacture_year # None
              THEN <<isoformat(<<manufacture_year[1], 12, 31>>),
                     isoformat(<<manufacture_year[1], 1, 1>>)>>
              ELSE <<>>
      kw == Strip(keyword)
      w4 == IF kw # <<>> THEN <<C_SEARCH>> ELSE <<>>
      p4 == IF kw # <<>> THEN <<Wild(kw), Wild(kw)>> ELSE <<>>
  IN [where |-> w1 \o w2 \o w3 \o w4, params |-> p1 \o p2 \o p3 \o p4]

\* SQLite's DATE(x): the ISO text of a date, NULL for NULL.
DATE(d) == IF d = NULL THEN NULL ELSE isoformat(d)

SqlTextLe(a, b) == a # NULL /\ b # NULL /\ StrLe(a, b)

RECURSIVE ConnectEvalWhere(_, _, _)
ConnectEvalWhere(w, p, r) ==
  IF w = <<>> THEN TRUE
  ELSE
    LET c == Head(w)
    IN CASE c = C_SCOPE -> r.scope = p[1] /\ ConnectEvalWhere(Tail(w), Tail(p), r)
         [] c = C_MAKER -> r.maker = p[1] /\ ConnectEvalWhere(Tail(w), Tail(p), r)
         [] c = C_YEAR ->
              /\ SqlTextLe(DATE(r.start_date), p[1])
              /\ SqlTextLe(p[2], DATE(r.end_date))
              /\ ConnectEvalWhere(Tail(w), SubSeq(p, 3, Len(p)), r)
         [] c = C_SEARCH ->
              /\ (LikeMatch(p[1], r.maker) \/ LikeMatch(p[2], r.car_name))
              /\ ConnectEvalWhere(Tail(w), SubSeq(p, 3, Len(p)), r)

ConnectWhere(rows, region_type, maker_name, manufacture_year, keyword) ==
  LET q == ConnectBuildWhere(region_type, maker_name, manufacture_year, keyword)
  IN SelectSeq(rows, LAMBDA r : ConnectEvalWhere(q.where, q.params, r))

\* ORDER BY DATE(rc.recall_date) DESC, rc.recall_id DESC: NULL after every date.
RecallDateGt(a, b) ==
  LET da == DATE(a.recall_date)
      db == DATE(b.recall_date)
  IN \/ da # NULL /\ db = NULL
     \/ da # NULL /\ db # NULL /\ StrLt(db, da)
     \/ da = db /\ a.recall_id > b.recall_id

\* pd.to_numeric(recall_quantity, errors="coerce").fillna(0).astype(int)
QuantityToInt(rows) ==
  [i \in 1..Len(rows) |->
     [rows[i] EXCEPT !.recall_quantity = COALESCE(rows[i].recall_quantity, 0)]]

query_recalls(tbl_recall, region_type, maker_name, manufacture_year, keyword, limit) ==
  LET matched == ConnectWhere(ConnectJoin(tbl_recall), region_type, maker_name,
                              manufacture_year, keyword)
  IN QuantityToInt(head(StableSort(matched, RecallDateGt), limit))

\* The statistics frame.  recall_year (the year of recall_date, None where it
\* does not parse) is a column only when the query returned rows.
base_filtered_view(tbl_recall, region_type, maker_name) ==
  LET df == ConnectWhere(ConnectJoin(tbl_recall), region_type, maker_name, None, <<>>)
      cols == {"region_type", "maker_name", "model_name", "recall_quantity",
               "recall_date"}
  IN IF df # <<>>
       THEN [columns |-> cols \cup {"recall_year"},
             rows |-> [i \in 1..Len(df) |->
                         [scope |-> df[i].scope, maker |-> df[i].maker,
                          car_name |-> df[i].car_name,
                          recall_quantity |-> COALESCE(df[i].recall_quantity, 0),
                          recall_date |-> df[i].recall_date,
                          recall_year |-> IF df[i].recall_date = NULL THEN None
                                          ELSE Some(YEAR(df[i].recall_date))]]]
       ELSE [columns |-> cols, rows |-> <<>>]

RecallYearIs(df, year) == SelectSeq(df.rows, LAMBDA r : r.recall_year = Some(year))

stats_kpi(df, year) ==
  LET base_year == IF df.rows # <<>> THEN RecallYearIs(df, year) ELSE <<>>
  IN <<Len(base_year),
       IF base_year # <<>>
         THEN SumSeq([i \in 1..Len(base_year) |-> base_year[i].recall_quantity])
         ELSE 0>>

\* df["recall_year"] raises KeyError on a frame without that column.
stats_maker_count(df, year) ==
  IF "recall_year" \notin df.columns THEN [ok |-> FALSE, error |-> "KeyError", rows |-> <<>>]
  ELSE LET base_year == RecallYearIs(df, year)
       IN [ok |-> TRUE, error |-> NONE,
           rows |-> IF base_year = <<>> THEN <<>>
                    ELSE Ranking([i \in 1..Len(base_year) |-> base_year[i].maker])]

stats_year_trend(df, ys) ==
  [i \in 1..Len(ys) |->
     [year |-> ys[i],
      recall_cnt |-> IF df.rows # <<>> THEN Len(RecallYearIs(df, ys[i])) ELSE 0]]

stats_model_ranking(df, year) ==
  IF "recall_year" \notin df.columns THEN [ok |-> FALSE, error |-> "KeyError", rows |-> <<>>]
  ELSE LET base_year == RecallYearIs(df, year)
       IN [ok |-> TRUE, error |-> NONE,
           rows |-> IF base_year = <<>> THEN <<>>
                    ELSE Ranking([i \in 1..Len(base_year) |-> base_year[i].car_name])]

\* ---------------------------------------------------------- KimMinHa/app.py
\* The three-column search of apply_filters: both sides lower-cased, the
\* query read as a regular expression.
app_search(df, q) ==
  LET q_lower == Lower(q)
  IN SelectSeq(df, LAMBDA r : \/ RegexSearch(q_lower, Lower(r.manufacturer))
                              \/ RegexSearch(q_lower, Lower(r.model))
                              \/ RegexSearch(q_lower, Lower(r.reason)))

\* An apply_filters whose severity step reads the unfiltered frame.
apply_filters_unchained(df, q, mfg, severity) ==
  IF df = <<>> THEN df
  ELSE
    LET o1 == IF q # <<>> THEN app_search(df, q) ELSE df
        o2 == IF mfg # <<ALL>> THEN SelectSeq(o1, LAMBDA r : r.manufacturer = mfg) ELSE o1
    IN IF severity # ALL THEN SelectSeq(df, LAMBDA r : r.severity = severity) ELSE o2

apply_filters(df, q, mfg, severity) ==
  IF df = <<>> THEN df
  ELSE
    LET o1 == IF q # <<>> THEN app_search(df, q) ELSE df
        o2 == IF mfg # <<ALL>> THEN SelectSeq(o1, LAMBDA r : r.manufacturer = mfg) ELSE o1
    IN IF severity # ALL THEN SelectSeq(o2, LAMBDA r : r.severity = severity) ELSE o2

\* The object apply_filters returns: its argument itself for an empty frame
\* (app.py:61-62), else the copy made at :64 or a selection of it.
apply_filters_object(df) == IF df = <<>> THEN "df" ELSE "out"

total_recalls(df) == IF df # <<>> THEN Len(df) ELSE 0

\* int(df["affected_units"].fillna(0).sum())
total_units(df) ==
  IF df # <<>> THEN SumSeq([i \in 1..Len(df) |-> COALESCE(df[i].affected_units, 0)]) ELSE 0

\* dt.to_period("M").astype(str): YYYY-MM.
to_period_M(d) == SubSeq(isoformat(d), 1, 7)

\* A month trend sorted with the latest month first.
by_month_descending(df) ==
  LET tmp == SelectSeq(df, LAMBDA r : r.recall_date # NULL)
      ym == [i \in 1..Len(tmp) |-> to_period_M(tmp[i].recall_date)]
      ks == SortedTexts({ym[i] : i \in 1..Len(tmp)})
      n == Len(ks)
  IN [g \in 1..n |->
        [ym |-> ks[n + 1 - g],
         count |-> Cardinality({i \in 1..Len(tmp) : ym[i] = ks[n + 1 - g]})]]

\* Lines 225-229: to_datetime(errors="coerce") leaves NaT for a recall_date
\* that is no date, dropna removes those rows, groupby("ym").size() gives one
\* row per month text and sort_values("ym") orders the texts.
by_month(df) ==
  LET tmp == SelectSeq(df, LAMBDA r : r.recall_date # NULL)
      ym == [i \in 1..Len(tmp) |-> to_period_M(tmp[i].recall_date)]
      ks == SortedTexts({ym[i] : i \in 1..Len(tmp)})
  IN [g \in 1..Len(ks) |->
        [ym |-> ks[g], count |-> Cardinality({i \in 1..Len(tmp) : ym[i] = ks[g]})]]

\* ------------------------------------------------------------------ inputs
\* Production-period cells of an uploaded file.
P_SPAN ==
  <<"2", "0", "1", "8", "-", "0", "6", "-", "0", "1", " ", "~", " ", "2",
    "0", "2", "0", "-", "0", "3", "-", "0", "1">>

P_2017 ==
  <<"2", "0", "1", "7", "-", "0", "3", "-", "0", "1", "~", "2", "0", "1",
    "7", "-", "1", "2", "-", "3", "1">>

P_EDGE ==
  <<" ", "2", "0", "2", "0", "-", "1", "2", "-", "3", "1", " ", "~", " ",
    "2", "0", "2", "1", "-", "1", "-", "1", " ">>

P_NOSEP ==
  <<"2", "0", "2", "0", "-", "0", "1", "-", "0", "1">>

P_BADDAY ==
  <<"2", "0", "2", "0", "-", "0", "2", "-", "3", "0", " ", "~", " ", "2",
    "0", "2", "0", "-", "1", "2", "-", "3", "1">>

P_INVERTED ==
  <<"2", "0", "2", "0", "-", "0", "5", "-", "0", "1", " ", "~", " ", "2",
    "0", "1", "9", "-", "0", "5", "-", "0", "1">>

CsvRow(gubun, jejaksa, chamyeong, period, units, defect) ==
  [gubun |-> gubun, jejaksa |-> jejaksa, chamyeong |-> chamyeong,
   saengsangigan |-> period, daesangsuryang |-> units,
   gyeolhamnaeyong |-> defect, sijeongbangbeop |-> <<>>, gitamunui |-> <<>>]

\* The rows an uploaded file is made of.
CsvPool ==
  {CsvRow("KR", <<"K", "i">>, <<"K", "5">>, Str(P_SPAN),
          Str(<<"1", ",", "2", "3", "4", "u">>), <<"a", "i", "r">>),
   CsvRow("EX", <<"B", "M">>, <<"i", "5">>, Str(P_2017), Str(<<>>), <<"b", ".", "k">>),
   CsvRow("EX", <<"B", "M">>, <<"M", "3">>, Str(P_EDGE), Str(<<"5">>), <<"a", "i", "r">>),
   CsvRow("KR", <<"K", "i">>, <<"K", "5">>, Str(P_NOSEP), Str(<<"7">>), <<"r", "i", "m">>),
   CsvRow("EX", <<"B", "M">>, <<"i", "5">>, Str(P_BADDAY), NanCell, <<"a", "i", "r">>),
   CsvRow("KR", <<"K", "i">>, <<"K", "3">>, NanCell, Str(<<"a", "b">>), <<"r", "i", "m">>),
   CsvRow("KR", <<"K", "i">>, <<"K", "3">>, Str(P_INVERTED), Str(<<"9">>), <<"b", ".", "k">>)}

AllCols == {required_cols[i] : i \in 1..Len(required_cols)}

\* The rows tbl_recall is made of.
RecallPool ==
  {[model_id |-> 1, recall_quantity |-> Some(1234), recall_date |-> <<2019, 5, 1>>,
    defect_desc |-> <<"a", "i", "r">>],
   [model_id |-> 2, recall_quantity |-> None, recall_date |-> <<2020, 7, 1>>,
    defect_desc |-> <<"b", ".", "k">>],
   [model_id |-> 3, recall_quantity |-> Some(5), recall_date |-> NULL,
    defect_desc |-> <<"a", "i", "r">>],
   [model_id |-> 1, recall_quantity |-> Some(7), recall_date |-> <<2021, 2, 1>>,
    defect_desc |-> <<"r", "i", "m">>]}

\* The rows the frame of load_recall_data is made of once the database is
\* connected (app.py:35-46).
AppPool ==
  {[manufacturer |-> <<"K", "i">>, model |-> <<"K", "5">>, recall_date |-> <<2019, 5, 1>>,
    severity |-> "HI", status |-> "open", affected_units |-> Some(1234),
    reason |-> <<"a", "i", "r">>],
   [manufacturer |-> <<"B", "M">>, model |-> <<"i", "5">>, recall_date |-> <<2020, 7, 1>>,
    severity |-> "LOW", status |-> "done", affected_units |-> None,
    reason |-> <<"b", ".", "k">>],
   [manufacturer |-> <<"B", "M">>, model |-> <<"M", " ", "3">>, recall_date |-> NULL,
    severity |-> "HI", status |-> "open", affected_units |-> Some(5),
    reason |-> <<"r", "i", "m">>]}

\* What a user types into the search box.
SearchPool == {<<>>, <<" ">>, <<"k">>, <<".">>, <<"r">>, <<"_">>}

Severities == {ALL, "HI", "MID", "LOW"}

SeqsUpTo(S, n) == UNION {[1..k -> S] : k \in 0..n}

SeqToSet(s) == {s[i] : i \in 1..Len(s)}

Apps == {"app", "app_2", "app_connect", "app_final_final"}

idle == [op |-> "idle"]

crash(at, error, empty) == [op |-> "crash", at |-> at, error |-> error, empty |-> empty]

Init ==
  /\ app \in Apps
  /\ \/ /\ app = "app_2"
        /\ \/ /\ data \in {[columns |-> AllCols, rows |-> rs] : rs \in SeqsUpTo(CsvPool, MaxRows)}
           \/ /\ data \in {[columns |-> AllCols \ m, rows |-> rs] :
                             m \in {{"saengsangigan"}, {"gubun", "daesangsuryang"}},
                             rs \in SeqsUpTo(CsvPool, 1)}
     \/ /\ app \in {"app_connect", "app_final_final"}
        /\ data \in SeqsUpTo(RecallPool, MaxRows)
     \/ /\ app = "app"
        /\ data \in SeqsUpTo(AppPool, MaxRows)
  /\ pc = "start"
  /\ df_all = <<>>
  /\ years = <<>>
  /\ out = idle
  /\ conn = "none"
  /\ catalog = 1
  /\ cache = <<>>

\* ------------------------------------------------------------ app_2.py run
\* Lines 168-176: load and normalize the upload, then compute the year list.
app2_load ==
  /\ app = "app_2" /\ pc = "start"
  /\ LET r == preprocess_csv(data)
     IN IF ~r.ok
          THEN /\ pc' = "stopped"
               /\ out' = [op |-> "load_error", error |-> r.error, missing |-> r.missing]
               /\ UNCHANGED <<df_all, years>>
          ELSE LET y == compute_year_list(r.df)
               IN /\ df_all' = r.df
                  /\ years' = y.years
                  /\ IF y.ok
                       THEN pc' = "ready" /\ out' = [op |-> "loaded"]
                       ELSE /\ pc' = "crashed"
                            /\ out' = crash("compute_year_list", y.error, r.df = <<>>)
  /\ UNCHANGED <<app, data, catalog, cache, conn>>

\* Lines 184-220: the list tab.  With no year to offer the select box yields
\* None and date(None, 1, 1) raises TypeError.
app2_tab_list ==
  /\ app = "app_2" /\ pc = "ready"
  /\ IF years = <<>>
       THEN pc' = "crashed" /\ out' = crash("filter_by_manufacture_year", "TypeError", FALSE)
       ELSE \E scope_value \in {ALL} \cup {df_all[i].scope : i \in 1..Len(df_all)} :
            \E maker_value \in {<<ALL>>} \cup SeqToSet(makers_by_scope(df_all, scope_value)) :
            \E manufacture_year \in SeqToSet(years) :
            \E typed \in SearchPool :
              LET search_text == Strip(typed)
                  l == app2_list(df_all, scope_value, maker_value, manufacture_year,
                                 search_text)
              IN /\ pc' = "shown"
                 /\ out' = [op |-> "list", scope |-> scope_value, maker |-> maker_value,
                            severity |-> ALL, year |-> Some(manufacture_year),
                            typed |-> typed, search |-> search_text, input |-> df_all,
                            base |-> l.base, yeared |-> l.yeared, found |-> l.found, shown |-> l.shown]
  /\ UNCHANGED <<app, data, catalog, cache, conn, df_all, years>>

\* Lines 250-303: the statistics tab.
app2_tab_stats ==
  /\ app = "app_2" /\ pc = "ready" /\ years # <<>>
  /\ \E stat_scope \in {ALL} \cup {df_all[i].scope : i \in 1..Len(df_all)} :
     \E stat_maker \in {<<ALL>>} \cup SeqToSet(makers_by_scope(df_all, stat_scope)) :
     \E year \in SeqToSet(years) :
       LET base == ScopeMakerBase(df_all, stat_scope, stat_maker)
       IN /\ pc' = "shown"
          /\ out' = [op |-> "stats", scope |-> stat_scope, maker |-> stat_maker,
                     year |-> Some(year), base |-> base,
                     total_cnt |-> kpi_total_recall_count(base, year),
                     total_units |-> kpi_total_units(base, year),
                     df_maker |-> maker_recall_count(base, year),
                     df_tr |-> year_trend(base, years),
                     df_model |-> model_ranking(base, year)]
  /\ UNCHANGED <<app, data, catalog, cache, conn, df_all, years>>

\* ------------------------------------------------- app_final_final.py run
\* What a render shows when a call of recall_repo raises.  fetch_year_trend
\* has no handler of its own: the RuntimeError it lets through is the one of
\* fetch_kpi (recall_repo.py:256-263).
RaisedBy(call) == IF call = "fetch_year_trend" THEN "fetch_kpi" ELSE call

\* The calls app_final_final.py makes inside try/except with st.error and
\* st.stop (:74-86, :141-145).
CaughtCalls == {"fetch_recalls", "fetch_kpi"}

db_failure(call) ==
  [op |-> "db_error", at |-> call, error |-> "RuntimeError", names |-> RaisedBy(call),
   reported |-> call \in CaughtCalls, empty |-> FALSE]

\* The run after a call of recall_repo failed: st.stop() after st.error, or
\* the uncaught RuntimeError.
after_failure(call) == IF call \in CaughtCalls THEN "stopped" ELSE "crashed"

\* Line 37: years = cached_years().  Every connection of recall_repo is the
\* subject of a with block.
final_load ==
  /\ app = "app_final_final" /\ pc = "start"
  /\ \/ /\ years' = cached_years
        /\ pc' = "ready"
        /\ out' = [op |-> "loaded"]
     \/ /\ pc' = after_failure("fetch_year_range")
        /\ out' = db_failure("fetch_year_range")
        /\ UNCHANGED years
  /\ conn' = "closed"
  /\ UNCHANGED <<app, data, catalog, cache, df_all>>

YearOptions == {None} \cup {Some(y) : y \in SeqToSet(years)}

\* Lines 45-116: the list tab.  cached_makers raises on a scope it has not
\* loaded yet (:57), fetch_recalls inside try/except (:74-86).
final_tab_list ==
  /\ app = "app_final_final" /\ pc = "ready"
  /\ conn' = "closed"
  /\ \/ \E call \in {"fetch_makers", "fetch_recalls"} :
          pc' = after_failure(call) /\ out' = db_failure(call)
     \/ \E scope_value \in {ALL, "KR", "EX"} :
        \E maker_value \in SeqToSet(cached_makers(scope_value)) :
        \E manufacture_year_param \in YearOptions :
        \E typed \in SearchPool :
          LET search_text == Strip(typed)
          IN \E recalls \in fetch_recalls(data, scope_value, maker_value,
                                          manufacture_year_param, search_text, ListLimit) :
               /\ pc' = "shown"
               /\ out' = [op |-> "list", scope |-> scope_value, maker |-> maker_value,
                          severity |-> ALL, year |-> manufacture_year_param,
                          typed |-> typed, search |-> search_text,
                          input |-> RepoJoin(data),
                          found |-> RepoWhere(RepoJoin(data), scope_value, maker_value,
                                              manufacture_year_param, search_text),
                          shown |-> recalls]
  /\ UNCHANGED <<app, data, catalog, cache, df_all, years>>

\* Lines 122-208: the statistics tab.  years[0] raises IndexError on an empty
\* year list.  Only fetch_kpi is called inside try/except (:141-145).
final_tab_stats ==
  /\ app = "app_final_final" /\ pc = "ready"
  /\ conn' = "closed"
  /\ \/ \E call \in {"fetch_makers", "fetch_kpi", "fetch_maker_ranking"}
                    \cup (IF years # <<>> THEN {"fetch_year_trend", "fetch_model_ranking"}
                          ELSE {}) :
          pc' = after_failure(call) /\ out' = db_failure(call)
     \/ \E stat_scope \in {ALL, "KR", "EX"} :
        \E stat_maker \in SeqToSet(cached_makers(stat_scope)) :
        \E year_param \in YearOptions :
          LET kpi == fetch_kpi(data, stat_scope, stat_maker, year_param)
          IN IF years = <<>>
               THEN pc' = "crashed" /\ out' = crash("tab_stats", "IndexError", FALSE)
               ELSE \E rows \in fetch_maker_ranking(data, stat_scope, stat_maker,
                                                    year_param, TopN) :
                    \E model_rows \in fetch_model_ranking(data, stat_scope, stat_maker,
                                                          year_param, TopN) :
                      /\ pc' = "shown"
                      /\ out' = [op |-> "stats", scope |-> stat_scope, maker |-> stat_maker,
                                 year |-> year_param,
                                 base |-> RepoWhere(RepoJoin(data), stat_scope, stat_maker,
                                                    None, <<>>),
                                 total_cnt |-> kpi[1], total_units |-> kpi[2],
                                 df_maker |-> rows,
                                 df_tr |-> fetch_year_trend(data, stat_scope, stat_maker,
                                                            years[1], years[Len(years)]),
                                 df_model |-> model_rows]
  /\ UNCHANGED <<app, data, catalog, cache, df_all, years>>

\* ----------------------------------------------------- app_connect.py run
\* Lines 329-341: open the connection, load the scopes and the year range.
connect_load ==
  /\ app = "app_connect" /\ pc = "start"
  /\ years' = connect_compute_year_list(load_year_range)
  /\ pc' = "ready"
  /\ out' = [op |-> "loaded"]
  /\ conn' = "open"
  /\ UNCHANGED <<app, data, catalog, cache, df_all>>

\* Lines 349-416 and 476: the list tab, then conn.close().
connect_tab_list ==
  /\ app = "app_connect" /\ pc = "ready"
  /\ \E region_type \in SeqToSet(scope_options) :
     \E maker_name \in {<<ALL>>} \cup SeqToSet(load_makers_by_scope(region_type)) :
     \E manufacture_year \in (IF years # <<>> THEN {Some(y) : y \in SeqToSet(years)}
                              ELSE {None}) :
     \E typed \in SearchPool :
       LET keyword == Strip(typed)
       IN /\ pc' = "shown"
          /\ out' = [op |-> "list", scope |-> region_type, maker |-> maker_name,
                     severity |-> ALL, year |-> manufacture_year,
                     typed |-> typed, search |-> keyword,
                     input |-> ConnectJoin(data),
                     found |-> ConnectWhere(ConnectJoin(data), region_type, maker_name,
                                            manufacture_year, keyword),
                     shown |-> query_recalls(data, region_type, maker_name,
                                             manufacture_year, keyword, ListLimit)]
  /\ conn' = "closed"
  /\ UNCHANGED <<app, data, catalog, cache, df_all, years>>

\* Lines 422-476: the statistics tab.  An exception of stats_maker_count or
\* stats_model_ranking ends the run before conn.close() at :476.
connect_tab_stats ==
  /\ app = "app_connect" /\ pc = "ready"
  /\ \E stat_region \in SeqToSet(scope_options) :
     \E stat_maker \in {<<ALL>>} \cup SeqToSet(load_makers_by_scope(stat_region)) :
       IF years = <<>>
         THEN pc' = "shown" /\ out' = [op |-> "no_years"]
         ELSE \E year \in SeqToSet(years) :
           LET base == base_filtered_view(data, stat_region, stat_maker)
               kpi == stats_kpi(base, year)
               df_maker == stats_maker_count(base, year)
               df_model == stats_model_ranking(base, year)
           IN IF ~df_maker.ok
                THEN /\ pc' = "crashed"
                     /\ out' = crash("stats_maker_count", df_maker.error, base.rows = <<>>)
                ELSE IF ~df_model.ok
                THEN /\ pc' = "crashed"
                     /\ out' = crash("stats_model_ranking", df_model.error, base.rows = <<>>)
                ELSE /\ pc' = "shown"
                     /\ out' = [op |-> "stats", scope |-> stat_region, maker |-> stat_maker,
                                year |-> Some(year), base |-> base.rows,
                                total_cnt |-> kpi[1], total_units |-> kpi[2],
                                df_maker |-> df_maker.rows,
                                df_tr |-> stats_year_trend(base, years),
                                df_model |-> df_model.rows]
  /\ conn' = (IF pc' = "crashed" THEN conn ELSE "closed")
  /\ UNCHANGED <<app, data, catalog, cache, df_all, years>>

\* ------------------------------------------------------ KimMinHa/app.py run
\* Line 122: df_raw = load_recall_data().
app_load ==
  /\ app = "app" /\ pc = "start"
  /\ df_all' = data
  /\ pc' = "ready"
  /\ out' = [op |-> "loaded"]
  /\ UNCHANGED <<app, data, catalog, cache, conn, years>>

\* Lines 102-131, 170-171 and 222-229: the controls, apply_filters, the two
\* totals and the month trend, which is computed for a frame with rows.
\* The search text is used as typed.  apply_filters is a function of its four
\* arguments and is applied to drawn ones: the frame is the empty one that
\* load_recall_data returns today or one with rows, the manufacturer is ALL
\* (the only option of the select box at :106) or one of the frame's
\* manufacturers (the options that :124-129 prepares).
app_render ==
  /\ app = "app" /\ pc = "ready"
  /\ \E q \in SearchPool :
     \E mfg_selected \in {<<ALL>>} \cup {df_all[i].manufacturer : i \in 1..Len(df_all)} :
     \E severity_selected \in Severities :
       LET df == apply_filters(df_all, q, mfg_selected, severity_selected)
       IN /\ pc' = "shown"
          /\ out' = [op |-> "list", scope |-> ALL, maker |-> mfg_selected,
                     severity |-> severity_selected, year |-> None,
                     typed |-> q, search |-> q, input |-> df_all,
                     found |-> df, shown |-> head(df, TopN),
                     total_cnt |-> total_recalls(df), total_units |-> total_units(df),
                     by_month |-> IF df = <<>> THEN <<>> ELSE by_month(df),
                     object |-> apply_filters_object(df_all)]
  /\ UNCHANGED <<app, data, catalog, cache, conn, df_all, years>>

\* The next interaction reruns the script from its cached load; app_connect
\* opens its module-level connection again (app_connect.py:330-331).
rerun ==
  /\ pc = "shown"
  /\ pc' = "ready"
  /\ out' = idle
  /\ conn' = (IF app = "app_connect" THEN "open" ELSE conn)
  /\ UNCHANGED <<app, data, catalog, cache, df_all, years>>

Next ==
  \/ app2_load \/ app2_tab_list \/ app2_tab_stats
  \/ final_load \/ final_tab_list \/ final_tab_stats
  \/ connect_load \/ connect_tab_list \/ connect_tab_stats
  \/ app_load \/ app_render
  \/ rerun

Spec == Init /\ [][Next]_vars

\* ------------------------------------------- parse_units_to_int on its own
\* The cells of the units column: None, NaN and the texts of up to
\* MaxCellLen characters over UnitChars.
MaxCellLen == 4

UnitChars == {"0", "1", ",", ".", " ", "u"}

UnitCells == {NoneCell, NanCell} \cup {Str(t) : t \in SeqsUpTo(UnitChars, MaxCellLen)}

InitUnits ==
  /\ app = "parse_units_to_int"
  /\ data \in UnitCells
  /\ pc = "start"
  /\ df_all = <<>>
  /\ years = <<>>
  /\ out = idle
  /\ conn = "none"
  /\ catalog = 1
  /\ cache = <<>>

\* app_2.py:74: the cell mapped through parse_units_to_int.
units_parse ==
  /\ app = "parse_units_to_int" /\ pc = "start"
  /\ pc' = "shown"
  /\ out' = [op |-> "parsed", value |-> parse_units_to_int(data)]
  /\ UNCHANGED <<app, data, catalog, cache, conn, df_all, years>>

NextUnits == units_parse

SpecUnits == InitUnits /\ [][NextUnits]_vars

\* ------------------------------------------------ st.cache_data on its own
\* In Spec the tables of the database never change, so a memoized load and a
\* fresh one return the same value and the cache is left out of the runs
\* above.  Here the cache is kept and the database may change.
DB_PATH == "recalls.db"

\* The uploads of the cache runs: a file of no or one row.
Uploads == {[columns |-> AllCols, rows |-> rs] : rs \in SeqsUpTo(CsvPool, 1)}

\* What the body of a memoized loader returns now; call is the name of the
\* loader followed by its arguments.
Fresh(call) ==
  CASE call[1] = "cached_years" -> cached_years
    [] call[1] = "cached_makers" -> cached_makers(call[2])
    [] call[1] = "load_scopes" -> load_scopes
    [] call[1] = "load_year_range" -> load_year_range
    [] call[1] = "load_data_from_upload" -> preprocess_csv(call[2]).df

\* st.cache_data with no ttl: the stored value of a call that is stored, else
\* the value of the body.
Memo(call) == IF call \in DOMAIN cache THEN cache[call] ELSE Fresh(call)

\* The cache after the calls of a run.
Stored(calls) ==
  [call \in DOMAIN cache \cup calls |-> Memo(call)]

InitCache ==
  /\ app \in {"app_2", "app_connect", "app_final_final"}
  /\ data \in (IF app = "app_2" THEN Uploads ELSE {<<>>})
  /\ pc = "ready"
  /\ df_all = <<>>
  /\ years = <<>>
  /\ out = idle
  /\ conn = "none"
  /\ catalog = 1
  /\ cache = <<>>

\* app_final_final.py:23-37, :57, :131: a run calls cached_years() and
\* cached_makers of the selected scope.
cache_final_run ==
  /\ app = "app_final_final"
  /\ \E scope \in {ALL, "KR", "EX"} :
       /\ cache' = Stored({<<"cached_years">>, <<"cached_makers", scope>>})
       /\ years' = Memo(<<"cached_years">>)
       /\ out' = [op |-> "options", scope |-> scope,
                  makers |-> Memo(<<"cached_makers", scope>>)]
  /\ UNCHANGED <<app, data, pc, df_all, conn, catalog>>

\* app_connect.py:71-84, :116-135, :337-341: a run calls load_scopes(DB_PATH)
\* and load_year_range(DB_PATH).
cache_connect_run ==
  /\ app = "app_connect"
  /\ cache' = Stored({<<"load_scopes", DB_PATH>>, <<"load_year_range", DB_PATH>>})
  /\ years' = connect_compute_year_list(Memo(<<"load_year_range", DB_PATH>>))
  /\ out' = [op |-> "options", scopes |-> Memo(<<"load_scopes", DB_PATH>>)]
  /\ UNCHANGED <<app, data, pc, df_all, conn, catalog>>

\* app_2.py:93-96, :168-169: a run calls load_data_from_upload on the bytes of
\* the uploaded file.
cache_upload_run ==
  /\ app = "app_2"
  /\ cache' = Stored({<<"load_data_from_upload", data>>})
  /\ df_all' = Memo(<<"load_data_from_upload", data>>)
  /\ out' = [op |-> "loaded"]
  /\ UNCHANGED <<app, data, pc, years, conn, catalog>>

\* The user uploads another file.
upload_change ==
  /\ app = "app_2"
  /\ data' \in Uploads \ {data}
  /\ UNCHANGED <<app, pc, df_all, years, out, conn, catalog, cache>>

\* The database gets a manufacturer and a model between two runs.
db_change ==
  /\ app \in {"app_connect", "app_final_final"}
  /\ catalog = 1
  /\ catalog' = 2
  /\ UNCHANGED <<app, data, pc, df_all, years, out, conn, cache>>

NextCache ==
  \/ cache_final_run \/ cache_connect_run \/ cache_upload_run
  \/ upload_change \/ db_change

SpecCache == InitCache /\ [][NextCache]_vars

\* -------------------------------------------- the SQL builders on their own
\* The statement fetch_recalls executes (recall_repo.py:91-121): the WHERE
\* conditions, the ORDER BY and the LIMIT as they stand in the text, and the
\* parameters bound to it.  The limit is bound, as int(limit).
fetch_recalls_sql(scope, maker, manufacture_year, search_text, limit) ==
  LET q == _build_where(scope, maker, manufacture_year, search_text)
  IN [where |-> q.where, order_by |-> "ORDER BY md.end_date DESC",
      limit |-> "LIMIT %s", params |-> q.params \o <<limit>>]

\* The statement query_recalls executes (app_connect.py:163-220).  The limit
\* is written into the text, as int(limit).
query_recalls_sql(region_type, maker_name, manufacture_year, keyword, limit) ==
  LET q == ConnectBuildWhere(region_type, maker_name, manufacture_year, keyword)
  IN [where |-> q.where,
      order_by |-> "ORDER BY DATE(rc.recall_date) DESC, rc.recall_id DESC",
      limit |-> <<"LIMIT", limit>>, params |-> q.params]

\* The criteria the builders are called with.
SqlCriteria ==
  [scope : {ALL, "KR", "EX"},
   maker : {<<ALL>>, <<"K", "i">>, <<"B", "M">>},
   year : {None, Some(2019), Some(2020)},
   search : SearchPool,
   limit : {TopN, ListLimit}]

InitSql ==
  /\ app \in {"fetch_recalls", "query_recalls"}
  /\ data \in SqlCriteria
  /\ pc = "start"
  /\ df_all = <<>>
  /\ years = <<>>
  /\ out = idle
  /\ conn = "none"
  /\ catalog = 1
  /\ cache = <<>>

sql_fetch_recalls ==
  /\ app = "fetch_recalls" /\ pc = "start"
  /\ pc' = "shown"
  /\ out' = fetch_recalls_sql(data.scope, data.maker, data.year, data.search, data.limit)
  /\ UNCHANGED <<app, data, catalog, cache, conn, df_all, years>>

sql_query_recalls ==
  /\ app = "query_recalls" /\ pc = "start"
  /\ pc' = "shown"
  /\ out' = query_recalls_sql(data.scope, data.maker, data.year, data.search, data.limit)
  /\ UNCHANGED <<app, data, catalog, cache, conn, df_all, years>>

NextSql == sql_fetch_recalls \/ sql_query_recalls

SpecSql == InitSql /\ [][NextSql]_vars

\* ------------------------------------------------------------- properties
\* What the properties below read of a state.
ListShown == pc = "shown" /\ out.op = "list"

StatsShown == pc = "shown" /\ out.op = "stats"

\* The date an ISO text YYYY-MM-DD denotes.
DateOfIso(t) == <<int(SubSeq(t, 1, 4)), int(SubSeq(t, 6, 7)), int(SubSeq(t, 9, 10))>>

\* The manufacture period, manufacturer, model and defect text of a record.
StartOf(r) == IF app = "app_2" THEN DateOfIso(r.start_date) ELSE r.start_date

EndOf(r) == IF app = "app_2" THEN DateOfIso(r.end_date) ELSE r.end_date

MakerOf(r) == IF app = "app" THEN r.manufacturer ELSE r.maker

ModelOf(r) == IF app = "app" THEN r.model ELSE r.car_name

ReasonOf(r) == IF app = "app" THEN r.reason ELSE r.defect_text

\* The period of r meets the calendar year Y.
OverlapsYear(r, Y) ==
  /\ StartOf(r) # NULL /\ EndOf(r) # NULL
  /\ DateLe(StartOf(r), <<Y, 12, 31>>)
  /\ DateLe(<<Y, 1, 1>>, EndOf(r))

\* The criteria the running script offers, their values in the shown list,
\* and the values that disable them (app_2.py has no way to leave the year
\* out).
CriteriaNames ==
  IF app = "app" THEN {"maker", "severity", "search"}
  ELSE {"scope", "maker", "year", "search"}

Criteria ==
  [scope |-> out.scope, maker |-> out.maker, severity |-> out.severity,
   year |-> out.year, search |-> out.search]

Disabled ==
  [scope |-> ALL, maker |-> <<ALL>>, severity |-> ALL,
   year |-> IF app = "app_2" THEN out.year ELSE None, search |-> <<>>]

Only(S) ==
  [k \in {"scope", "maker", "severity", "year", "search"} |->
     IF k \in S THEN Criteria[k] ELSE Disabled[k]]

\* The list filter of the running script applied to rows under criteria c.
ListFilter(rows, c) ==
  CASE app = "app" -> apply_filters(rows, c.search, c.maker, c.severity)
    [] app = "app_2" -> app2_list(rows, c.scope, c.maker, c.year[1], c.search).found
    [] app = "app_final_final" -> RepoWhere(rows, c.scope, c.maker, c.year, c.search)
    [] app = "app_connect" -> ConnectWhere(rows, c.scope, c.maker, c.year, c.search)

\* C1: in every pipeline variant the manufacture-year filter for the year Y
\* returns exactly the records it is given whose period satisfies
\* start_date <= Dec 31 of Y and end_date >= Jan 1 of Y, in their order.
C1_YearOverlap ==
  (ListShown /\ out.year # None) =>
    LET Y == out.year[1]
        before == IF app = "app_2" THEN out.base
                  ELSE ListFilter(out.input, [Criteria EXCEPT !.year = None])
        after == IF app = "app_2" THEN out.yeared ELSE out.found
    IN after = SelectSeq(before, LAMBDA r : OverlapsYear(r, Y))

\* A list for 2019 that keeps a record begun in 2018 and drops another one.
C1_Witness ==
  /\ ListShown /\ app = "app_2" /\ out.year = Some(2019)
  /\ Len(out.base) = 2 /\ Len(out.yeared) = 1
  /\ StartOf(out.yeared[1]) = <<2018, 6, 1>>
  /\ EndOf(out.yeared[1]) = <<2020, 3, 1>>

\* The records behind the statistics tab, with their manufacture periods.
BaseRecords ==
  IF app = "app_connect"
    THEN ConnectWhere(ConnectJoin(data), out.scope, out.maker, None, <<>>)
    ELSE out.base

OverlapCount(Y) ==
  Cardinality({i \in 1..Len(BaseRecords) : OverlapsYear(BaseRecords[i], Y)})

RecallDateCount(Y) ==
  Cardinality({i \in 1..Len(out.base) :
                 out.base[i].recall_date # NULL /\ out.base[i].recall_date[1] = Y})

TrendCountIs(Y, n) ==
  \E j \in 1..Len(out.df_tr) : out.df_tr[j].year = Y /\ out.df_tr[j].recall_cnt = n

C3_TrendShape ==
  StatsShown =>
    /\ Len(out.df_tr) = Len(years)
    /\ \A i \in 1..Len(years) :
         /\ out.df_tr[i].year = years[i]
         /\ out.df_tr[i].recall_cnt \in Nat
         /\ (IF app = "app_connect" THEN RecallDateCount(years[i])
             ELSE OverlapCount(years[i])) = 0 => out.df_tr[i].recall_cnt = 0

\* The trend of an empty record set: five years, each with the count 0.
C3_Witness ==
  /\ StatsShown /\ app = "app_final_final"
  /\ out.base = <<>>
  /\ out.df_tr = [i \in 1..5 |-> [year |-> 2016 + i, recall_cnt |-> 0]]

\* C4: filtering by a part of the criteria and then filtering the result by
\* the other part gives the records, in the order, that one filtering by all
\* the criteria gives, whichever part comes first.
C4_Composable ==
  ListShown =>
    \A S \in SUBSET CriteriaNames :
      ListFilter(ListFilter(out.input, Only(S)), Only(CriteriaNames \ S)) = out.found

\* A list under a search text, a manufacturer and a severity that keeps one
\* record of three.
C4_Witness ==
  /\ ListShown /\ app = "app"
  /\ out.search # <<>> /\ out.maker # <<ALL>> /\ out.severity # ALL
  /\ Len(out.input) = 3 /\ Len(out.found) = 1

\* q occurs in s as a literal substring, letter case ignored.
LiteralIn(q, s) ==
  \E i \in 0..(Len(s) - Len(q)) :
    \A j \in 1..Len(q) : LowerChar(q[j]) = LowerChar(s[i + j])

\* C5: under a non-empty query q a record passes the search exactly when q is
\* a case-insensitive literal substring of its manufacturer, its model or its
\* reason/defect text.
C5_LiteralSearch ==
  (ListShown /\ out.search # <<>>) =>
    out.found =
      SelectSeq(ListFilter(out.input, [Criteria EXCEPT !.search = <<>>]),
                LAMBDA r : \/ LiteralIn(out.search, MakerOf(r))
                           \/ LiteralIn(out.search, ModelOf(r))
                           \/ LiteralIn(out.search, ReasonOf(r)))

\* r meets the category and year criteria of the shown list.
CategoryOk(r) ==
  /\ out.scope = ALL \/ r.scope = out.scope
  /\ out.maker = <<ALL>> \/ MakerOf(r) = out.maker
  /\ out.severity = ALL \/ r.severity = out.severity
  /\ out.year = None \/ OverlapsYear(r, out.year[1])

\* C6: with an empty or blank search text the list holds exactly the records
\* whose fields equal the category values that are not the sentinel and whose
\* period meets the year when one is given; with every criterion disabled it
\* is the input, unchanged.
C6_DisabledCriteria ==
  (ListShown /\ Strip(out.typed) = <<>>) => out.found = SelectSeq(out.input, CategoryOk)

\* C7: no filter and no aggregation raises when the record set reaching it
\* is empty.
C7_EmptyNeverRaises == ~(pc = "crashed" /\ out.empty)

\* The affected units of a record, a missing quantity counting as 0.
UnitsOf(r) ==
  CASE app = "app" -> IF r.affected_units = None THEN 0 ELSE r.affected_units[1]
    [] app = "app_2" -> r.target_units
    [] app = "app_connect" -> r.recall_quantity
    [] app = "app_final_final" ->
         IF r.recall_quantity = None THEN 0 ELSE r.recall_quantity[1]

RECURSIVE UnitsSum(_)
UnitsSum(rows) == IF rows = <<>> THEN 0 ELSE UnitsOf(Head(rows)) + UnitsSum(Tail(rows))

\* The record set the totals, and the rankings, are taken over.
KpiRows ==
  CASE app = "app" -> out.found
    [] app = "app_connect" ->
         SelectSeq(out.base, LAMBDA r : r.recall_date # NULL
                                        /\ r.recall_date[1] = out.year[1])
    [] app \in {"app_2", "app_final_final"} ->
         SelectSeq(out.base, LAMBDA r : out.year = None \/ OverlapsYear(r, out.year[1]))

KpiShown == StatsShown \/ (ListShown /\ app = "app")

\* C8: the total recall count is the number of rows of the record set handed
\* to the aggregator and the total of affected units is the sum of their
\* affected-units field; both are 0 for the empty record set.
C8_KpiTotals ==
  KpiShown =>
    /\ out.total_cnt = Len(KpiRows)
    /\ out.total_units = UnitsSum(KpiRows)

\* Two records in the year: 1,234 and 5 units.
C8_Witness ==
  /\ StatsShown /\ app = "app_2"
  /\ Len(out.base) = 3
  /\ out.total_cnt = 2 /\ out.total_units = 1239

Min(a, b) == IF a < b THEN a ELSE b

\* rank is a top-N ranking of the groups of keys.
RankingOk(rank, keys) ==
  LET G == SeqToSet(keys)
      n == Len(rank)
      count(k) == Cardinality({i \in 1..Len(keys) : keys[i] = k})
      included == {rank[i].key : i \in 1..n}
  IN /\ n = Min(TopN, Cardinality(G))
     /\ Cardinality(included) = n
     /\ \A i \in 1..n : rank[i].key \in G /\ rank[i].recall_cnt = count(rank[i].key)
     /\ \A i, j \in 1..n : i < j => rank[i].recall_cnt >= rank[j].recall_cnt
     /\ \A k \in G \ included : \A i \in 1..n : count(k) <= rank[i].recall_cnt

\* The rankings a statistics tab shows are top-N rankings of its record set.
RankingsShownOk ==
  StatsShown =>
    /\ RankingOk(out.df_maker, [i \in 1..Len(KpiRows) |-> MakerOf(KpiRows[i])])
    /\ RankingOk(out.df_model, [i \in 1..Len(KpiRows) |-> ModelOf(KpiRows[i])])

\* C9: for a record set with G distinct group keys the ranking returns
\* min(20, G) rows, each with the number of records of its group, in
\* non-increasing count order, no omitted group outnumbering an included one;
\* for G = 0 that is a ranking of no rows.
C9_Ranking ==
  /\ RankingsShownOk
  /\ ~(/\ pc = "crashed"
       /\ out.at \in {"stats_maker_count", "stats_model_ranking"}
       /\ out.empty)

\* The dates a production-period cell stands for, <<>> where it has none:
\* a missing cell, a text without the separator, a day that does not exist.
ExpectedPeriod(c) ==
  IF c = Str(P_SPAN) THEN <<<<2018, 6, 1>>, <<2020, 3, 1>>>>
  ELSE IF c = Str(P_2017) THEN <<<<2017, 3, 1>>, <<2017, 12, 31>>>>
  ELSE IF c = Str(P_EDGE) THEN <<<<2020, 12, 31>>, <<2021, 1, 1>>>>
  ELSE IF c = Str(P_INVERTED) THEN <<<<2020, 5, 1>>, <<2019, 5, 1>>>>
  ELSE <<>>

\* C10: the normalized table holds exactly the raw rows whose production
\* period has the form "start ~ end" with both sides parseable, in their
\* original order, each with its two dates; the other rows are left out and
\* the normalizer raises no error for them.
C10_Normalization ==
  (app = "app_2" /\ data.columns = AllCols) =>
    /\ pc # "stopped"
    /\ pc # "start" =>
         LET raw == SelectSeq(data.rows,
                              LAMBDA r : ExpectedPeriod(r.saengsangigan) # <<>>)
         IN /\ Len(df_all) = Len(raw)
            /\ \A i \in 1..Len(raw) :
                 /\ df_all[i].scope = raw[i].gubun
                 /\ df_all[i].maker = raw[i].jejaksa
                 /\ df_all[i].car_name = raw[i].chamyeong
                 /\ df_all[i].defect_text = raw[i].gyeolhamnaeyong
                 /\ StartOf(df_all[i]) = ExpectedPeriod(raw[i].saengsangigan)[1]
                 /\ EndOf(df_all[i]) = ExpectedPeriod(raw[i].saengsangigan)[2]

\* Three raw rows, one of them with an unparseable period, give two rows.
C10_Witness ==
  /\ app = "app_2" /\ pc = "ready"
  /\ Len(data.rows) = 3 /\ Len(df_all) = 2
  /\ \E i \in 1..3 : data.rows[i].saengsangigan = Str(P_BADDAY)

\* C12: an upload that lacks required columns ends the load with one reported
\* ValueError that lists every missing column, in the order of required_cols;
\* no table and no year list come out of it and the run stops, it does not
\* crash.
C12_SchemaError ==
  (app = "app_2" /\ pc # "start" /\ data.columns # AllCols) =>
    /\ pc = "stopped"
    /\ out.op = "load_error"
    /\ out.error = "ValueError"
    /\ out.missing = SelectSeq(required_cols, LAMBDA c : c \notin data.columns)
    /\ SeqToSet(out.missing) = AllCols \ data.columns
    /\ df_all = <<>>
    /\ years = <<>>

\* An upload with rows that lacks two columns was reported.
C12_Witness ==
  /\ app = "app_2" /\ pc = "stopped" /\ out.op = "load_error"
  /\ Len(out.missing) = 2
  /\ data.rows # <<>>

\* C13: every record of the normalized table has its manufacture start date
\* on or before its manufacture end date.
C13_DateOrder ==
  app = "app_2" =>
    \A i \in 1..Len(df_all) : DateLe(StartOf(df_all[i]), EndOf(df_all[i]))

\* The recall date of a listed record: tbl_recall.recall_date of its recall.
RecallDateOf(r) == data[r.recall_id].recall_date

\* C14: the list handed to the page has at most 500 records and is in recall
\* date descending order: of two listed records with a recall date the later
\* one never comes second.
C14_RecentFirst ==
  (ListShown /\ app \in {"app_connect", "app_final_final"}) =>
    /\ Len(out.shown) <= ListLimit
    /\ \A i, j \in 1..Len(out.shown) :
         (/\ i < j
          /\ RecallDateOf(out.shown[i]) # NULL
          /\ RecallDateOf(out.shown[j]) # NULL)
         => DateLe(RecallDateOf(out.shown[j]), RecallDateOf(out.shown[i]))

\* C16: a failed database call ends the render stopped, with the reported
\* message naming the call that failed.
C16_FailureReported ==
  out.op = "db_error" =>
    /\ pc = "stopped"
    /\ out.reported
    /\ out.names = out.at

\* C18: at a shown ranking, a repeated call with the same records and the
\* same criteria returns the rows shown, in the order shown.
C18_RankingDeterministic ==
  (StatsShown /\ app = "app_final_final") =>
    /\ \A r \in fetch_maker_ranking(data, out.scope, out.maker, out.year, TopN) :
         r = out.df_maker
    /\ \A r \in fetch_model_ranking(data, out.scope, out.maker, out.year, TopN) :
         r = out.df_model

\* The month <<year, month>> a text YYYY-MM names.
MonthOfText(t) == <<int(SubSeq(t, 1, 4)), int(SubSeq(t, 6, 7))>>

MonthBefore(a, b) == a[1] < b[1] \/ (a[1] = b[1] /\ a[2] < b[2])

\* C15: the month trend of the filtered rows has one pair per month in which
\* a row with a recall date falls and no other pair, each with the number of
\* those rows, in chronological order; the counts add up to the number of
\* rows with a recall date.
C15_MonthTrend ==
  (app = "app" /\ ListShown /\ out.found # <<>>) =>
    LET dated == SelectSeq(out.found, LAMBDA r : r.recall_date # NULL)
        months == {<<dated[i].recall_date[1], dated[i].recall_date[2]>> : i \in 1..Len(dated)}
        bm == out.by_month
    IN /\ Len(bm) = Cardinality(months)
       /\ {MonthOfText(bm[g].ym) : g \in 1..Len(bm)} = months
       /\ \A g \in 1..Len(bm) :
            bm[g].count = Cardinality({i \in 1..Len(dated) :
                             <<dated[i].recall_date[1], dated[i].recall_date[2]>>
                               = MonthOfText(bm[g].ym)})
       /\ \A g, h \in 1..Len(bm) :
            g < h => MonthBefore(MonthOfText(bm[g].ym), MonthOfText(bm[h].ym))
       /\ SumSeq([g \in 1..Len(bm) |-> bm[g].count]) = Len(dated)

\* Three rows, the later month first, one row without a date: two pairs.
C15_Witness ==
  /\ app = "app" /\ ListShown
  /\ Len(out.found) = 3 /\ Len(out.by_month) = 2
  /\ out.found[1].recall_date = <<2020, 7, 1>>
  /\ \E i \in 1..3 : out.found[i].recall_date = NULL

\* The number a text of decimal digits denotes.
DecimalValue(ds) ==
  LET n == Len(ds)
      place(i) == DigitVal(ds[i]) * 10 ^ (n - i)
      S[i \in 0..n] == IF i = 0 THEN 0 ELSE S[i - 1] + place(i)
  IN S[n]

\* C11: the parsed value of a units cell is the number its digit characters
\* form in their order, 0 for a cell with no digit, for the empty text and for
\* None; it is never negative.
C11_UnitsParsed ==
  (app = "parse_units_to_int" /\ pc = "shown") =>
    LET raw == IF data.kind = "str" THEN data.s ELSE <<>>
        ds == SelectSeq(raw, IsDigit)
    IN /\ out.op = "parsed"
       /\ out.value = DecimalValue(ds)
       /\ out.value >= 0
       /\ ds = <<>> => out.value = 0

\* The text 1,01u gives 101.
C11_Witness ==
  /\ app = "parse_units_to_int" /\ pc = "shown"
  /\ data = Str(<<"1", ",", "0", "1">>)
  /\ out.value = 101

\* C17: the filter returns a table of its own, never its argument, and the
\* loaded table is the one that was loaded.
C17_DerivedResult ==
  (app = "app" /\ ListShown) =>
    /\ out.object # "df"
    /\ out.input = data
    /\ df_all = data

\* C19: when an interaction has ended, shown, stopped or crashed, no
\* connection it opened is still open.
C19_ConnectionsClosed ==
  pc \in {"shown", "stopped", "crashed"} => conn # "open"

\* C20: every stored value equals what a fresh load with its key returns now.
C20_MemoFresh ==
  \A call \in DOMAIN cache : cache[call] = Fresh(call)

\* The scope values other than ALL that the running script offers.
ScopeValues ==
  CASE app = "app_2" -> {df_all[i].scope : i \in 1..Len(df_all)}
    [] app = "app_final_final" -> {"KR", "EX"}
    [] app = "app_connect" -> SeqToSet(load_scopes)

\* <<count, units>> of the statistics tab for scope s and the shown maker
\* and year.
KpiFor(s) ==
  CASE app = "app_2" ->
         LET base == ScopeMakerBase(df_all, s, out.maker)
         IN <<kpi_total_recall_count(base, out.year[1]), kpi_total_units(base, out.year[1])>>
    [] app = "app_final_final" -> fetch_kpi(data, s, out.maker, out.year)
    [] app = "app_connect" ->
         stats_kpi(base_filtered_view(data, s, out.maker), out.year[1])

MakersFor(s) ==
  CASE app = "app_2" -> SeqToSet(makers_by_scope(df_all, s))
    [] app = "app_final_final" -> SeqToSet(fetch_makers(s))
    [] app = "app_connect" -> SeqToSet(load_makers_by_scope(s))

RECURSIVE KpiSum(_, _)
KpiSum(S, k) ==
  IF S = {} THEN 0
  ELSE LET s == CHOOSE x \in S : TRUE
       IN KpiFor(s)[k] + KpiSum(S \ {s}, k)

LoadedRecords == IF app = "app_2" THEN df_all ELSE RepoJoin(data)

\* C22: the years offered for a loaded, non-empty dataset are the years from
\* the least start year to the greatest end year, at least one, and every
\* loaded record meets the manufacture-year filter for one of them.
C22_YearsCover ==
  (/\ app \in {"app_2", "app_final_final"}
   /\ pc \in {"ready", "shown"}
   /\ LoadedRecords # <<>>) =>
    /\ years # <<>>
    /\ \A i \in 1..(Len(years) - 1) : years[i + 1] = years[i] + 1
    /\ app = "app_2" =>
         /\ \A i \in 1..Len(df_all) : years[1] <= StartOf(df_all[i])[1]
         /\ \E i \in 1..Len(df_all) : years[1] = StartOf(df_all[i])[1]
         /\ \A i \in 1..Len(df_all) : years[Len(years)] >= EndOf(df_all[i])[1]
         /\ \E i \in 1..Len(df_all) : years[Len(years)] = EndOf(df_all[i])[1]
    /\ \A i \in 1..Len(LoadedRecords) :
         \E j \in 1..Len(years) : OverlapsYear(LoadedRecords[i], years[j])

\* C23: a list shown for a scope, a maker and a year with no search text has
\* as many records as the statistics tab counts for the same selection, up
\* to the cap of 500.
C23_ListMatchesKpi ==
  (/\ ListShown
   /\ app \in {"app_2", "app_connect", "app_final_final"}
   /\ out.search = <<>>
   /\ app # "app_final_final" => out.year # None) =>
    Len(out.shown) = Min(ListLimit, KpiFor(out.scope)[1])

\* The criteria of c that are enabled.
Enabled4(c) ==
  <<c.scope # ALL, c.maker # <<ALL>>, c.year # None, Strip(c.search) # <<>>>>

\* The statement built for the criteria c by the builder under test.
SqlFor(c) ==
  IF app = "fetch_recalls"
    THEN fetch_recalls_sql(c.scope, c.maker, c.year, c.search, c.limit)
    ELSE query_recalls_sql(c.scope, c.maker, c.year, c.search, c.limit)

\* The values of c in the order of their placeholders.
BoundValues(c) ==
  LET e == Enabled4(c)
      y == c.year[1]
      s == Strip(c.search)
  IN (IF e[1] THEN <<c.scope>> ELSE <<>>)
     \o (IF e[2] THEN <<c.maker>> ELSE <<>>)
     \o (IF e[3]
          THEN (IF app = "fetch_recalls" THEN <<<<y, 12, 31>>, <<y, 1, 1>>>>
                ELSE <<isoformat(<<y, 12, 31>>), isoformat(<<y, 1, 1>>)>>)
          ELSE <<>>)
     \o (IF e[4]
          THEN (IF app = "fetch_recalls" THEN <<s, s>>
                ELSE <<<<"%">> \o s \o <<"%">>, <<"%">> \o s \o <<"%">>>>)
          ELSE <<>>)

\* C24: the text of a built statement is the one built for any other
\* criteria that enable the same criteria, the values are bound in the order
\* of their placeholders, and the limit is the one value written into the
\* text (query_recalls) or bound last (fetch_recalls).
C24_QueryText ==
  (app \in {"fetch_recalls", "query_recalls"} /\ pc = "shown") =>
    /\ \A c \in SqlCriteria :
         Enabled4(c) = Enabled4(data) =>
           /\ SqlFor(c).where = out.where
           /\ SqlFor(c).order_by = out.order_by
    /\ Len(out.where) = Cardinality({k \in 1..4 : Enabled4(data)[k]})
    /\ IF app = "fetch_recalls"
         THEN /\ out.limit = "LIMIT %s"
              /\ out.params = BoundValues(data) \o <<data.limit>>
         ELSE /\ out.limit = <<"LIMIT", data.limit>>
              /\ out.params = BoundValues(data)

\* A statement with all four criteria enabled.
C24_Witness ==
  /\ app = "fetch_recalls" /\ pc = "shown"
  /\ Enabled4(data) = <<TRUE, TRUE, TRUE, TRUE>>
  /\ Len(out.params) = 7
  /\ out.params[1] = "EX"

====
